---- MODULE Spec2Model ----
(***************************************************************************)
(* ARIA (NEXUS) research agent: the LangGraph run                          *)
(*   plan_research -> execute_search -> evaluate_results -> should_continue *)
(*   -> execute_search | synthesize_results | force_synthesize             *)
(* with its accumulated AgentState and the SSE event stream of a run.      *)
(*                                                                         *)
(* The node functions are modelled from the repository's analysis document *)
(* (src/unnamed/part_000) and README; what those do not show (the event    *)
(* emission of api/routes.py, the planner's failure path) follows spec.md. *)
(***************************************************************************)
EXTENDS Integers, Sequences, FiniteSets, TLC

\* ------------------------------------------------------------------ bounds
\* max_iterations is drawn from 1..MaxK (config.py sets 8; the loop is the
\* same for every cap, so small caps cover it).
MaxK == 3
\* inputs of the should_continue probe: iteration and cap range over -1..MaxArg
MaxArg == 4
\* the run watched by a slow or absent observer has max_iterations in 1..MaxObservedK
MaxObservedK == 2

\* ------------------------------------------------------- program constants
confidence_threshold == 85
\* the evaluator's rubric: points each dimension may contribute
CoverageMax == 40
ReliabilityMax == 30
RecencyMax == 15
ConsistencyMax == 15

\* ------------------------------------------------------------- input sets
\* queries the search-decision LLM may produce (it may repeat one: 2.4)
Queries == {"q1", "q2"}
\* sub-scores the evaluator LLM may return for a batch
Rubric(cov, rel, rec, con) ==
    [coverage |-> cov, reliability |-> rel, recency |-> rec, consistency |-> con]
Rubrics == {Rubric(CoverageMax, ReliabilityMax, RecencyMax - 1, 0),
            Rubric(CoverageMax, ReliabilityMax, RecencyMax, 0),
            Rubric(CoverageMax, ReliabilityMax, RecencyMax, ConsistencyMax)}
\* the sub-scores of an evaluation that failed
ZeroRubric == Rubric(0, 0, 0, 0)
\* Step 4 of the evaluator prompt: the score is the sum of the four dimensions
ConfidenceDoubleCoverage(r) ==
    2 * r.coverage + r.reliability + r.recency + r.consistency
Confidence(r) == r.coverage + r.reliability + r.recency + r.consistency
\* confidence scores the evaluator LLM may return
Confidences == {Confidence(r) : r \in Rubrics}
\* gaps an insufficient evaluation may name
GapSets == {{"g1"}, {"g2"}}

Source(u, s) == [url |-> u, score |-> s, error |-> FALSE]
\* tools.py: a search with no result returns [{error: ..., score: 0.0}]
ErrorMarker == [url |-> "", score |-> 0, error |-> TRUE]
\* what the search provider may return for a successful search: about 8
\* results per search (3.3), the best-scoring first
SearchBatchSize == 8
Urls == <<"u1", "u2", "u3", "u4", "u5", "u6", "u7", "u8">>
SearchBatch ==
    [i \in 1..SearchBatchSize |-> Source(Urls[i], SearchBatchSize + 1 - i)]
\* the batches a search may return: sources, or the tool's error marker
Batches == {SearchBatch, <<ErrorMarker>>}
\* LLM_PROVIDER: the providers the module-level llm instances may be bound to
Models == {"groq", "gemini"}

\* nodes.py:624: the synthesis prompt reads all_results[:15]
SynthesisWindow == 15

VARIABLES
    max_iterations,          \* settings.max_iterations, read by should_continue
    frontier,                \* graph nodes (or the conditional edge) scheduled next
    current_iteration,       \* AgentState.current_iteration
    search_queries_used,     \* AgentState.search_queries_used
    all_search_results,      \* AgentState.all_search_results (operator.add)
    current_search_results,  \* AgentState.current_search_results (latest batch)
    confidence_history,      \* AgentState.confidence_history
    cumulative_gaps,         \* AgentState.cumulative_gaps
    thinking_log,            \* AgentState.thinking_log (operator.add)
    reformulation_hint,      \* AgentState.reformulation_hint, "" when absent
    threshold_met,           \* AgentState.threshold_met
    rubric_scores,           \* the four sub-scores of each evaluation, in order
    final_answer,            \* the synthesizer's output (NoAnswer before it)
    events,                  \* the SSE stream of the run, in emission order
    rounds,                  \* history: number of execute_search executions
    trace,                   \* history: the nodes executed, in order
    decisions,               \* history: what should_continue returned, in order
    delivered,               \* number of events the observer has read
    cancelled,               \* the caller ended the run early
    active_model,            \* the provider the module-level llm instances use
    models_used,             \* history: the provider each node's LLM call used
    gaps_identified,         \* history: the gaps each evaluation named
    synthesis_read,          \* the results the synthesis prompt was given
    app,                     \* client: the App component's React state
    readers,                 \* client: the runSimulation calls and their streams
    listeners,               \* client: the keydown listeners on window
    probe                    \* should_continue probe: inputs and result

vars == <<max_iterations, frontier, current_iteration, search_queries_used,
          all_search_results, current_search_results, confidence_history,
          cumulative_gaps, thinking_log, reformulation_hint, threshold_met,
          rubric_scores, final_answer, events, rounds, trace, decisions,
          delivered, cancelled, active_model, models_used, gaps_identified,
          synthesis_read, app, readers, listeners, probe>>

state_vars == <<current_iteration, search_queries_used, all_search_results,
                current_search_results, confidence_history, cumulative_gaps,
                thinking_log, reformulation_hint, threshold_met, rubric_scores,
                final_answer>>

\* what the run itself never writes: the observer and the caller own these
\* the client (aria/src/App.tsx)
client_vars == <<app, readers, listeners>>

env_vars == <<delivered, cancelled, active_model, client_vars>>

\* what the nodes record besides the AgentState
audit_vars == <<models_used, gaps_identified, synthesis_read>>

NoProbe == [threshold_met |-> FALSE, iteration |-> 0, max_iterations |-> 0,
            result |-> "none"]

\* ---------------------------------------------------------------- helpers
Last(s) == s[Len(s)]

IsPrefix(s, t) == Len(s) <= Len(t) /\ SubSeq(t, 1, Len(s)) = s

\* Annotated[list, operator.add]: a node's returned list is added to the old one
AccumulateReplace(old, new) == new
Accumulate(old, new) == old \o new

\* the sources of a batch: its records that are not error markers
Sources(batch) == SelectSeq(batch, LAMBDA r : ~r.error)

\* ---------------------------------------------------- should_continue (2.2)
should_continue_cap_first(tm, iteration, cap) ==
    IF iteration >= cap THEN "force_synthesize"
    ELSE IF tm THEN "synthesize"
    ELSE "search"

should_continue_off_by_one(tm, iteration, cap) ==
    IF tm THEN "synthesize"
    ELSE IF iteration > cap THEN "force_synthesize"
    ELSE "search"

should_continue(tm, iteration, cap) ==
    IF tm THEN "synthesize"
    ELSE IF iteration >= cap THEN "force_synthesize"
    ELSE "search"

\* graph.py: the conditional edge maps the three returns to three nodes
EdgeTarget(ret) ==
    CASE ret = "search" -> "execute_search"
      [] ret = "synthesize" -> "synthesize_results"
      [] ret = "force_synthesize" -> "force_synthesize"

\* the graph's plain edges; "should_continue" stands for the conditional edge
SuccessorsFanOut(node) ==
    CASE node = "plan_research" -> {"execute_search", "synthesize_results"}
      [] node = "execute_search" -> {"evaluate_results"}
      [] node = "evaluate_results" -> {"should_continue"}
      [] OTHER -> {}

SuccessorsForceNotTerminal(node) ==
    CASE node = "plan_research" -> {"execute_search"}
      [] node = "execute_search" -> {"evaluate_results"}
      [] node = "evaluate_results" -> {"should_continue"}
      [] node = "force_synthesize" -> {"synthesize_results"}
      [] OTHER -> {}

Successors(node) ==
    CASE node = "plan_research" -> {"execute_search"}
      [] node = "execute_search" -> {"evaluate_results"}
      [] node = "evaluate_results" -> {"should_continue"}
      [] OTHER -> {}

\* the engine runs a scheduled node and schedules its successors
Advance(node) == frontier' = (frontier \ {node}) \cup Successors(node)

\* ------------------------------------------------------------ event stream
ThinkingStep(type, status, iteration) ==
    [type |-> type, status |-> status, iteration |-> iteration]

StepEvent(step) == [event_type |-> "step", data |-> step]

\* an emission that waits for the observer once two events are unread
EmitBlocking(evs) ==
    /\ Len(events) - delivered < 2
    /\ events' = events \o evs

\* emitting appends to the run's stream and never waits for the observer
Emit(evs) == events' = events \o evs

\* a node calls the module-level llm instance as it is bound at that moment
CallModel == models_used' = Append(models_used, active_model)

NoAnswer == [produced |-> FALSE, answer |-> "", final_confidence |-> 0,
             citations |-> <<>>]

\* ------------------------------------------------------------ client state
\* useState(null) of finalAnswer
NoFinal == [present |-> FALSE, answer |-> "", confidence |-> 0]

\* the state resetState leaves, for the query it is given (it keeps query)
ResetApp(q) ==
    [query |-> q, isRunning |-> FALSE, logs |-> <<>>, plan |-> <<>>,
     confidence |-> 0, confidenceHistory |-> <<>>, sources |-> <<>>,
     finalAnswer |-> NoFinal, retryEvents |-> <<>>, gaps |-> <<>>]

\* the useState initial values
InitialApp == ResetApp("")

\* what a function created in a render sees of that render's state
Closure(a) ==
    [isRunning |-> a.isRunning, query |-> a.query,
     finalAnswer |-> a.finalAnswer, confidence |-> a.confidence]

\* ------------------------------------------------------------------- Init
Init ==
    /\ max_iterations \in 1..MaxK
    /\ frontier = {"plan_research"}
    /\ current_iteration = 0
    /\ search_queries_used = <<>>
    /\ all_search_results = <<>>
    /\ current_search_results = <<>>
    /\ confidence_history = <<>>
    /\ cumulative_gaps = {}
    /\ thinking_log = <<>>
    /\ reformulation_hint = ""
    /\ threshold_met = FALSE
    /\ rubric_scores = <<>>
    /\ final_answer = NoAnswer
    /\ events = <<>>
    /\ rounds = 0
    /\ trace = <<>>
    /\ decisions = <<>>
    /\ delivered = 0
    /\ cancelled = FALSE
    /\ active_model = "groq"
    /\ models_used = <<>>
    /\ gaps_identified = <<>>
    /\ synthesis_read = <<>>
    /\ app = InitialApp
    /\ readers = <<>>
    /\ listeners = <<Closure(InitialApp)>>
    /\ probe = NoProbe

\* ------------------------------------------------- NODE 1: plan_research
plan_research ==
    /\ "plan_research" \in frontier
    /\ LET step == ThinkingStep("plan", "ok", current_iteration) IN
        /\ thinking_log' = Accumulate(thinking_log, <<step>>)
        /\ Emit(<<StepEvent(step)>>)
    /\ Advance("plan_research")
    /\ trace' = Append(trace, "plan_research")
    /\ CallModel
    /\ UNCHANGED <<max_iterations, current_iteration, search_queries_used,
                   all_search_results, current_search_results,
                   confidence_history, cumulative_gaps, reformulation_hint,
                   threshold_met, rubric_scores, final_answer, rounds, decisions,
                   gaps_identified, synthesis_read, probe, env_vars>>

plan_research_failed_as_complete ==
    /\ "plan_research" \in frontier
    /\ LET step == ThinkingStep("plan", "error", current_iteration) IN
        /\ thinking_log' = Accumulate(thinking_log, <<step>>)
        /\ Emit(<<StepEvent(step),
                  [event_type |-> "complete", data |-> step]>>)
    /\ frontier' = {}
    /\ trace' = Append(trace, "plan_research")
    /\ CallModel
    /\ UNCHANGED <<max_iterations, current_iteration, search_queries_used,
                   all_search_results, current_search_results,
                   confidence_history, cumulative_gaps, reformulation_hint,
                   threshold_met, rubric_scores, final_answer, rounds, decisions,
                   gaps_identified, synthesis_read, probe, env_vars>>

\* the planner fails: the run fails before any retrieval, and the stream ends
\* with a terminal error event
plan_research_failed ==
    /\ "plan_research" \in frontier
    /\ LET step == ThinkingStep("plan", "error", current_iteration) IN
        /\ thinking_log' = Accumulate(thinking_log, <<step>>)
        /\ Emit(<<StepEvent(step),
                  [event_type |-> "error", data |-> step]>>)
    /\ frontier' = {}
    /\ trace' = Append(trace, "plan_research")
    /\ CallModel
    /\ UNCHANGED <<max_iterations, current_iteration, search_queries_used,
                   all_search_results, current_search_results,
                   confidence_history, cumulative_gaps, reformulation_hint,
                   threshold_met, rubric_scores, final_answer, rounds, decisions,
                   gaps_identified, synthesis_read, probe, env_vars>>

\* ------------------------------------------------ NODE 2: execute_search
SearchStepType == IF current_iteration > 0 THEN "search_retry"
                  ELSE "search_initial"

SearchFailedNoIncrement ==
    /\ current_search_results' = <<>>
    /\ current_iteration' = current_iteration
    /\ all_search_results' = Accumulate(all_search_results, <<>>)
    /\ UNCHANGED search_queries_used
    /\ thinking_log' = Accumulate(thinking_log,
           <<ThinkingStep(SearchStepType, "error", current_iteration + 1)>>)

SearchFailedNoLog ==
    /\ current_search_results' = <<>>
    /\ current_iteration' = current_iteration + 1
    /\ all_search_results' = Accumulate(all_search_results, <<>>)
    /\ UNCHANGED <<search_queries_used, thinking_log>>

\* the except branch of execute_search (2.5): no results, counter still moves
SearchFailed ==
    /\ current_search_results' = <<>>
    /\ current_iteration' = current_iteration + 1
    /\ all_search_results' = Accumulate(all_search_results, <<>>)
    /\ UNCHANGED search_queries_used
    /\ thinking_log' = Accumulate(thinking_log,
           <<ThinkingStep(SearchStepType, "error", current_iteration + 1)>>)

\* the normal return of execute_search (2.3); a provider error or an empty
\* result arrives as the tool's error marker
SearchReturned(query, batch) ==
    /\ current_search_results' = batch
    /\ current_iteration' = current_iteration + 1
    /\ all_search_results' = Accumulate(all_search_results, batch)
    /\ search_queries_used' = Accumulate(search_queries_used, <<query>>)
    /\ thinking_log' = Accumulate(thinking_log,
           <<ThinkingStep(SearchStepType, "ok", current_iteration + 1)>>)

\* the hint of the previous evaluation went into this round's query
ConsumeHintKeepsIt == UNCHANGED reformulation_hint
ConsumeHint == reformulation_hint' = ""

execute_search ==
    /\ "execute_search" \in frontier
    /\ \/ SearchFailed
       \/ \E query \in Queries, batch \in Batches :
              SearchReturned(query, batch)
    /\ ConsumeHint
    /\ Emit(<<StepEvent(Last(thinking_log'))>>)
    /\ Advance("execute_search")
    /\ rounds' = rounds + 1
    /\ trace' = Append(trace, "execute_search")
    /\ CallModel
    /\ UNCHANGED <<max_iterations, confidence_history, cumulative_gaps,
                   threshold_met, rubric_scores, final_answer, decisions,
                   gaps_identified, synthesis_read, probe, env_vars>>

\* ---------------------------------------------- NODE 3: evaluate_results
ThresholdMetStrict(confidence) == confidence > confidence_threshold
\* README E6: confidence >= 85% ?
ThresholdMet(confidence) == confidence >= confidence_threshold

EvaluateStepType(tm) == IF tm THEN "evaluate_pass" ELSE "evaluate_retry"

\* the scores the evaluator may give the current batch: a batch without a
\* usable source is processed as low-confidence (3.2)
PossibleConfidences ==
    IF Sources(current_search_results) = <<>>
    THEN {c \in Confidences : ~ThresholdMet(c)}
    ELSE Confidences

\* confidence_update after every evaluation, gaps_updated when the set changed
EvaluationEvents(step, gaps_after) ==
    <<StepEvent(step),
      [event_type |-> "confidence_update",
       data |-> [current |-> Last(confidence_history'),
                 history |-> confidence_history',
                 threshold_met |-> threshold_met']]>>
    \o (IF gaps_after # cumulative_gaps
        THEN <<[event_type |-> "gaps_updated", data |-> [gaps |-> gaps_after]]>>
        ELSE <<>>)

EvaluatedReplacesGaps(confidence, gaps, hint) ==
    /\ threshold_met' = ThresholdMet(confidence)
    /\ confidence_history' = Accumulate(confidence_history, <<confidence>>)
    /\ cumulative_gaps' = gaps
    /\ reformulation_hint' = hint
    /\ UNCHANGED current_iteration
    /\ thinking_log' = Accumulate(thinking_log,
           <<ThinkingStep(EvaluateStepType(ThresholdMet(confidence)), "ok",
                          current_iteration)>>)

EvaluatedOverwritesHistory(confidence, gaps, hint) ==
    /\ threshold_met' = ThresholdMet(confidence)
    /\ confidence_history' = <<confidence>>
    /\ cumulative_gaps' = cumulative_gaps \cup gaps
    /\ reformulation_hint' = hint
    /\ UNCHANGED current_iteration
    /\ thinking_log' = Accumulate(thinking_log,
           <<ThinkingStep(EvaluateStepType(ThresholdMet(confidence)), "ok",
                          current_iteration)>>)

\* the evaluation succeeded with this score, these gaps and this hint
Evaluated(confidence, gaps, hint) ==
    /\ threshold_met' = ThresholdMet(confidence)
    /\ confidence_history' = Accumulate(confidence_history, <<confidence>>)
    /\ cumulative_gaps' = cumulative_gaps \cup gaps
    /\ reformulation_hint' = hint
    /\ UNCHANGED current_iteration
    /\ thinking_log' = Accumulate(thinking_log,
           <<ThinkingStep(EvaluateStepType(ThresholdMet(confidence)), "ok",
                          current_iteration)>>)

\* the except branch of evaluate_results (2.5): logs the error, increments
\* the iteration counter and returns valid state
EvaluateFailed ==
    /\ threshold_met' = FALSE
    /\ confidence_history' = Accumulate(confidence_history, <<0>>)
    /\ UNCHANGED cumulative_gaps
    /\ current_iteration' = current_iteration + 1
    /\ thinking_log' = Accumulate(thinking_log,
           <<ThinkingStep("evaluate_retry", "error", current_iteration + 1)>>)

\* the hint an evaluation that failed leaves for the next round
FailureHint == "broader"

evaluate_results ==
    /\ "evaluate_results" \in frontier
    /\ \/ /\ EvaluateFailed
          /\ reformulation_hint' = FailureHint
          /\ rubric_scores' = Append(rubric_scores, ZeroRubric)
          /\ gaps_identified' = Append(gaps_identified, {})
       \/ \E r \in Rubrics :
              /\ Confidence(r) \in PossibleConfidences
              /\ rubric_scores' = Append(rubric_scores, r)
              /\ IF ThresholdMet(Confidence(r))
                 THEN /\ Evaluated(Confidence(r), {}, "")
                      /\ gaps_identified' = Append(gaps_identified, {})
                 ELSE \E gaps \in GapSets :
                          /\ Evaluated(Confidence(r), gaps, "narrower")
                          /\ gaps_identified' = Append(gaps_identified, gaps)
    /\ CallModel
    /\ Emit(EvaluationEvents(Last(thinking_log'), cumulative_gaps'))
    /\ Advance("evaluate_results")
    /\ trace' = Append(trace, "evaluate_results")
    /\ UNCHANGED <<max_iterations, search_queries_used, all_search_results,
                   current_search_results, final_answer, rounds, decisions,
                   synthesis_read, probe, env_vars>>

\* ---------------------------------------- CONDITIONAL: should_continue
RetryEvent ==
    [event_type |-> "retry_triggered",
     data |-> [iteration |-> current_iteration,
               confidence |-> Last(confidence_history),
               gaps |-> cumulative_gaps]]

\* retry_triggered when, and only when, the gate returns search
RetryEventsAlways(ret) == <<RetryEvent>>
RetryEvents(ret) == IF ret = "search" THEN <<RetryEvent>> ELSE <<>>

route_after_evaluate ==
    /\ "should_continue" \in frontier
    /\ LET ret == should_continue(threshold_met, current_iteration,
                                  max_iterations) IN
        /\ frontier' = (frontier \ {"should_continue"}) \cup {EdgeTarget(ret)}
        /\ decisions' = Append(decisions, ret)
        /\ Emit(RetryEvents(ret))
    /\ trace' = Append(trace, "should_continue")
    /\ UNCHANGED <<max_iterations, state_vars, rounds, audit_vars, probe,
                   env_vars>>

\* -------------------------------------------- NODE 4: synthesize_results
\* all_results[:15]
Window(results) ==
    SubSeq(results, 1, IF Len(results) < SynthesisWindow THEN Len(results)
                       ELSE SynthesisWindow)

Citations(results) ==
    LET src == Sources(Window(results)) IN
    [i \in 1..Len(src) |-> [id |-> i, url |-> src[i].url]]

\* the answer the Pro model produced from the window
Synthesized(confidence) ==
    [produced |-> TRUE, answer |-> "answer", final_confidence |-> confidence,
     citations |-> Citations(all_search_results)]

FallbackAnswerKeepsScore ==
    [produced |-> TRUE, answer |-> "synthesis_error",
     final_confidence |-> Last(confidence_history), citations |-> <<>>]

\* the fallback answer when synthesis fails or has no source to ground it
FallbackAnswer ==
    [produced |-> TRUE, answer |-> "synthesis_error", final_confidence |-> 0,
     citations |-> <<>>]

CompleteEvent(answer) ==
    [event_type |-> "complete",
     data |-> [final_answer |-> answer.answer,
               confidence |-> answer.final_confidence,
               citations |-> answer.citations,
               total_iterations |-> current_iteration]]

\* synthesize_results and force_synthesize are two graph nodes calling the
\* same function (2.1)
synthesize_results(node) ==
    /\ node \in frontier
    /\ \E ok \in BOOLEAN :
        LET answer == IF ok /\ Sources(all_search_results) # <<>>
                      THEN Synthesized(Last(confidence_history))
                      ELSE FallbackAnswer
            step == ThinkingStep("synthesize",
                                 IF ok THEN "ok" ELSE "error",
                                 current_iteration)
        IN  /\ final_answer' = answer
            /\ synthesis_read' = Window(all_search_results)
            /\ thinking_log' = Accumulate(thinking_log, <<step>>)
            /\ Emit(<<StepEvent(step), CompleteEvent(answer)>>)
    /\ Advance(node)
    /\ trace' = Append(trace, node)
    /\ CallModel
    /\ UNCHANGED <<max_iterations, current_iteration, search_queries_used,
                   all_search_results, current_search_results,
                   confidence_history, cumulative_gaps, reformulation_hint,
                   threshold_met, rubric_scores, rounds, decisions,
                   gaps_identified, probe, env_vars>>

\* --------------------------------------------------------- specification
Next ==
    \/ plan_research
    \/ plan_research_failed
    \/ execute_search
    \/ evaluate_results
    \/ route_after_evaluate
    \/ synthesize_results("synthesize_results")
    \/ synthesize_results("force_synthesize")

Spec == Init /\ [][Next]_vars

\* the same run, with the engine never stopping while a node is scheduled
FairSpec == Spec /\ WF_vars(Next)

\* --------------------------------------------------- caller and observer
\* the caller ends the run at a suspension point: nothing more is scheduled,
\* and the state holds what the completed nodes returned
cancel ==
    /\ ~cancelled
    /\ frontier # {}
    /\ cancelled' = TRUE
    /\ frontier' = {}
    /\ UNCHANGED <<max_iterations, state_vars, events, rounds, trace,
                   decisions, delivered, active_model, audit_vars, probe, client_vars>>

SpecCancel == Init /\ [][Next \/ cancel]_vars

\* the observer reads the next event of the stream, whenever it likes
observer_read ==
    /\ delivered < Len(events)
    /\ delivered' = delivered + 1
    /\ UNCHANGED <<max_iterations, frontier, state_vars, events, rounds,
                   trace, decisions, cancelled, active_model, audit_vars,
                   probe, client_vars>>

InitObserved == Init /\ max_iterations <= MaxObservedK

\* the engine is fair, the observer is not: it may be slow or never read
SpecObserved ==
    InitObserved /\ [][Next \/ observer_read]_vars /\ WF_vars(Next)

\* the administrative interface rebinds the module-level llm instances, at
\* any moment, also while a run is between two of its nodes
switch_model ==
    /\ \E m \in Models \ {active_model} : active_model' = m
    /\ UNCHANGED <<max_iterations, frontier, state_vars, events, rounds,
                   trace, decisions, delivered, cancelled, audit_vars, probe, client_vars>>

SpecAdmin == InitObserved /\ [][Next \/ switch_model]_vars

\* the client's ConfidenceBar shows its below-threshold banner for this value
BelowThresholdBanner(value) == value < 85

\* ------------------------------------------- should_continue on all inputs
InitDecide ==
    /\ max_iterations = 1
    /\ frontier = {}
    /\ current_iteration = 0
    /\ search_queries_used = <<>>
    /\ all_search_results = <<>>
    /\ current_search_results = <<>>
    /\ confidence_history = <<>>
    /\ cumulative_gaps = {}
    /\ thinking_log = <<>>
    /\ reformulation_hint = ""
    /\ threshold_met = FALSE
    /\ rubric_scores = <<>>
    /\ final_answer = NoAnswer
    /\ events = <<>>
    /\ rounds = 0
    /\ trace = <<>>
    /\ decisions = <<>>
    /\ delivered = 0
    /\ cancelled = FALSE
    /\ active_model = "groq"
    /\ models_used = <<>>
    /\ gaps_identified = <<>>
    /\ synthesis_read = <<>>
    /\ app = InitialApp
    /\ readers = <<>>
    /\ listeners = <<Closure(InitialApp)>>
    /\ probe \in [threshold_met : BOOLEAN, iteration : -1..MaxArg,
                  max_iterations : -1..MaxArg, result : {"none"}]

Decide ==
    /\ probe.result = "none"
    /\ probe' = [probe EXCEPT !.result =
                    should_continue(probe.threshold_met, probe.iteration,
                                    probe.max_iterations)]
    /\ UNCHANGED <<max_iterations, frontier, state_vars, events, rounds,
                   trace, decisions, audit_vars, env_vars>>

SpecDecide == InitDecide /\ [][Decide]_vars

\* =================================================== client (App.tsx)
\* The response body is a sequence of symbols: "DATA:" is the field prefix
\* 'data: ', "LF" the newline, an event name the JSON text of that event,
\* "{bad" a text JSON.parse rejects, ":ping" any other field or comment.
\* Display-only state (stats, toolUsage, toasts, progress, iterationData,
\* contradictions) is left out.

\* runSimulation calls within one behaviour
MaxRuns == 2
\* runSimulation calls where only the parsing of one response is examined
MaxStreamRuns == 1
\* symbols one reader.read() may deliver
MaxChunk == 4

EventNames == {"plan", "search", "search_retry", "evaluate",
               "confidence_update", "gaps_updated", "retry_triggered",
               "synthesize", "complete"}

NoData ==
    [type |-> "", subtasks |-> <<>>, sources |-> <<>>, confidence |-> 0,
     citations |-> <<>>, answer |-> "", final_confidence |-> 0,
     current |-> 0, history |-> <<>>, gaps |-> <<>>, final_answer |-> ""]

SourceItem(u, t) == [url |-> u, title |-> t]

\* the same page cited twice: it was returned in two rounds
RepeatedCitations == <<[url |-> "u1"], [url |-> "u2"], [url |-> "u1"]>>

\* JSON.parse of an event's text
EventOf(name) ==
    CASE name = "plan" ->
           [event_type |-> "step",
            data |-> [NoData EXCEPT !.type = "plan", !.subtasks = <<"t1">>]]
      [] name = "search" ->
           [event_type |-> "step",
            data |-> [NoData EXCEPT !.type = "search_initial",
                         !.sources = <<SourceItem("u1", "t1"),
                                       SourceItem("u2", "t2"),
                                       SourceItem("u9", "")>>]]
      [] name = "search_retry" ->
           [event_type |-> "step",
            data |-> [NoData EXCEPT !.type = "search_retry",
                         !.sources = <<SourceItem("u2", "t2"),
                                       SourceItem("u3", "t3")>>]]
      [] name = "evaluate" ->
           [event_type |-> "step",
            data |-> [NoData EXCEPT !.type = "evaluate_pass",
                                    !.confidence = 90]]
      [] name = "confidence_update" ->
           [event_type |-> "confidence_update",
            data |-> [NoData EXCEPT !.current = 90, !.history = <<90>>]]
      [] name = "gaps_updated" ->
           [event_type |-> "gaps_updated",
            data |-> [NoData EXCEPT !.gaps = <<"g1">>]]
      [] name = "retry_triggered" ->
           [event_type |-> "retry_triggered",
            data |-> [NoData EXCEPT !.confidence = 40, !.gaps = <<"g1">>]]
      [] name = "synthesize" ->
           [event_type |-> "step",
            data |-> [NoData EXCEPT !.type = "synthesize",
                         !.citations = RepeatedCitations,
                         !.answer = "answer", !.final_confidence = 88]]
      [] name = "complete" ->
           [event_type |-> "complete",
            data |-> [NoData EXCEPT !.final_answer = "answer",
                         !.confidence = 88,
                         !.citations = RepeatedCitations]]

EventLine(name) == <<"DATA:", name, "LF">>

\* a run that completes; its search steps carried no source list
StreamComplete ==
    EventLine("plan") \o EventLine("evaluate")
    \o EventLine("confidence_update") \o <<"LF">> \o EventLine("synthesize")
    \o EventLine("complete")

\* a response that ends without a complete event, its last line cut short
StreamCut ==
    EventLine("search") \o <<":ping", "LF">> \o EventLine("search_retry")
    \o <<"DATA:", "{bad", "LF">> \o EventLine("gaps_updated")
    \o EventLine("retry_triggered") \o <<"DATA:", "plan">>

StreamNames == {"complete", "cut"}

Stream(name) == IF name = "complete" THEN StreamComplete ELSE StreamCut

\* ------------------------------------------------- the read loop's parsing
FirstLF(text) ==
    IF \E i \in 1..Len(text) : text[i] = "LF"
    THEN CHOOSE i \in 1..Len(text) :
             /\ text[i] = "LF"
             /\ \A j \in 1..(i - 1) : text[j] # "LF"
    ELSE 0

RECURSIVE SplitLinesDropsRest(_)
SplitLinesDropsRest(text) ==
    IF FirstLF(text) = 0 THEN [lines |-> <<>>, rest |-> <<>>]
    ELSE LET i == FirstLF(text)
             more == SplitLinesDropsRest(SubSeq(text, i + 1, Len(text)))
         IN  [lines |-> <<SubSeq(text, 1, i - 1)>> \o more.lines,
              rest |-> more.rest]

\* lines = buffer.split('\n'); buffer = lines.pop() || ''
RECURSIVE SplitLines(_)
SplitLines(text) ==
    IF FirstLF(text) = 0 THEN [lines |-> <<>>, rest |-> text]
    ELSE LET i == FirstLF(text)
             more == SplitLines(SubSeq(text, i + 1, Len(text)))
         IN  [lines |-> <<SubSeq(text, 1, i - 1)>> \o more.lines,
              rest |-> more.rest]

\* line.startsWith('data: ') and JSON.parse(line.slice(6)) succeeds
IsEventLine(line) ==
    /\ Len(line) = 2
    /\ line[1] = "DATA:"
    /\ line[2] \in EventNames

\* the events of these lines, in order; every other line is skipped
ParsedEvents(lines) ==
    LET kept == SelectSeq(lines, IsEventLine)
    IN  [i \in 1..Len(kept) |-> kept[i][2]]

\* ------------------------------------------- the switch on event.event_type
\* a || b on numbers
OrElse(a, b) == IF a = 0 THEN b ELSE a

\* setSources(prev => [...prev, ...unique]) of a search step
AddSources(prev, items) ==
    LET newSources == SelectSeq(items, LAMBDA x : x.url # "" /\ x.title # "")
        existingUrls == {prev[i].url : i \in 1..Len(prev)}
        unique == SelectSeq(newSources, LAMBDA x : x.url \notin existingUrls)
    IN  prev \o [i \in 1..Len(unique) |-> [url |-> unique[i].url]]

\* setSources(prev => prev.length > 0 ? prev : realSources)
AddCitations(prev, citations) ==
    IF Len(prev) > 0 THEN prev
    ELSE [i \in 1..Len(citations) |-> [url |-> citations[i].url]]

\* case 'step'; cl is what the running runSimulation call sees of the state
ProcessStep(a, step, cl) ==
    LET logged == [a EXCEPT !.logs = Append(a.logs, step.type)]
        planned ==
            IF step.type = "plan" /\ step.subtasks # <<>>
            THEN [logged EXCEPT !.plan =
                     [i \in 1..Len(step.subtasks) |->
                         [id |-> step.subtasks[i], status |-> "pending"]]]
            ELSE logged
        searched ==
            IF step.type \in {"search_initial", "search_retry"}
            THEN [planned EXCEPT !.sources =
                     AddSources(planned.sources, step.sources)]
            ELSE planned
        evaluated ==
            IF step.type \in {"evaluate_retry", "evaluate_pass"}
            THEN [searched EXCEPT
                     !.confidence = step.confidence,
                     !.confidenceHistory =
                         Append(searched.confidenceHistory, step.confidence)]
            ELSE searched
        cited ==
            [evaluated EXCEPT
                !.plan = [i \in 1..Len(evaluated.plan) |->
                             [evaluated.plan[i] EXCEPT !.status = "complete"]],
                !.sources = AddCitations(evaluated.sources, step.citations)]
        answered ==
            IF step.answer # ""
            THEN [cited EXCEPT
                     !.finalAnswer =
                         [present |-> TRUE, answer |-> step.answer,
                          confidence |-> OrElse(step.final_confidence,
                                                cl.confidence)],
                     !.confidence = OrElse(step.final_confidence,
                                           cl.confidence)]
            ELSE cited
    IN  IF step.type = "synthesize" THEN answered ELSE evaluated

\* case 'complete'
ProcessComplete(a, completeData, cl) ==
    LET stopped == [a EXCEPT !.isRunning = FALSE]
        answered ==
            IF completeData.final_answer # "" /\ ~cl.finalAnswer.present
            THEN [stopped EXCEPT
                     !.finalAnswer =
                         [present |-> TRUE,
                          answer |-> completeData.final_answer,
                          confidence |-> OrElse(completeData.confidence,
                                                cl.confidence)],
                     !.confidence = OrElse(completeData.confidence,
                                           cl.confidence)]
            ELSE stopped
    IN  [answered EXCEPT
            !.sources = AddCitations(answered.sources, completeData.citations)]

ProcessEvent(a, event, cl) ==
    CASE event.event_type = "step" -> ProcessStep(a, event.data, cl)
      [] event.event_type = "retry_triggered" ->
           [a EXCEPT !.retryEvents = Append(a.retryEvents, event.data)]
      [] event.event_type = "confidence_update" ->
           [a EXCEPT !.confidence = event.data.current,
                     !.confidenceHistory = event.data.history]
      [] event.event_type = "gaps_updated" ->
           [a EXCEPT !.gaps = event.data.gaps]
      [] event.event_type = "complete" ->
           ProcessComplete(a, event.data, cl)
      [] OTHER -> a

\* for (const line of lines): the events of one chunk, in order
RECURSIVE ProcessAll(_, _, _)
ProcessAll(a, names, cl) ==
    IF names = <<>> THEN a
    ELSE ProcessAll(ProcessEvent(a, EventOf(Head(names)), cl), Tail(names), cl)

\* ------------------------------------------------------- the user's actions
server_vars == <<max_iterations, frontier, state_vars, events, rounds, trace,
                 decisions, delivered, cancelled, active_model, audit_vars,
                 probe>>

NewReader(name, cl) ==
    [stream |-> name, pos |-> 0, buffer |-> <<>>, seen |-> <<>>,
     state |-> "reading", aborted |-> FALSE, closure |-> cl]

\* runSimulation up to its first await, called from a render that saw cl;
\* w is the state and the calls so far
RunSimulation(w, cl, name) ==
    IF cl.query = "" THEN w
    ELSE [app |-> [ResetApp(w.app.query) EXCEPT !.isRunning = TRUE],
          readers |-> Append(w.readers, NewReader(name, cl))]

\* the effect with dependency [isRunning]: it adds a listener on window and
\* its cleanup removes one from document, so none is ever removed
KeyboardEffect ==
    listeners' = IF app'.isRunning # app.isRunning
                 THEN Append(listeners, Closure(app'))
                 ELSE listeners

\* resetState called by the user, while these calls may still be reading
UserReset ==
    /\ app' = ResetApp(app.query)
    /\ readers' = [i \in 1..Len(readers) |->
                      IF readers[i].state = "reading"
                      THEN [readers[i] EXCEPT !.aborted = TRUE]
                      ELSE readers[i]]
    /\ KeyboardEffect

\* budget bounds the calls of one behaviour
Started(w, budget) ==
    /\ Len(w.readers) <= budget
    /\ app' = w.app
    /\ readers' = w.readers
    /\ KeyboardEffect

\* onChange of the input, which is disabled while isRunning: the user types
\* the question once
type_query ==
    /\ ~app.isRunning
    /\ app.query = ""
    /\ \E q \in {"q1"} : app' = [app EXCEPT !.query = q]
    /\ UNCHANGED <<readers, listeners, server_vars>>

\* onKeyDown of the input: Enter
press_enter(budget) ==
    /\ ~app.isRunning
    /\ \E name \in StreamNames :
           Started(RunSimulation([app |-> app, readers |-> readers],
                                 Closure(app), name), budget)
    /\ UNCHANGED server_vars

\* DEPLOY AGENT / ABORT MISSION
click_deploy(budget) ==
    /\ IF app.isRunning THEN UserReset
       ELSE /\ app.query # ""
            /\ \E name \in StreamNames :
                   Started(RunSimulation([app |-> app, readers |-> readers],
                                         Closure(app), name), budget)
    /\ UNCHANGED server_vars

\* the Reset Agent button
click_reset ==
    /\ UserReset
    /\ UNCHANGED server_vars

\* every listener on window handles the keydown, each with its own closure
RECURSIVE SpaceHandlers(_, _, _)
SpaceHandlers(ls, w, name) ==
    IF ls = <<>> THEN w
    ELSE SpaceHandlers(Tail(ls),
                       IF ~Head(ls).isRunning
                       THEN RunSimulation(w, Head(ls), name) ELSE w,
                       name)

\* Space pressed outside the input
press_space(budget) ==
    /\ \E name \in StreamNames :
           Started(SpaceHandlers(listeners, [app |-> app, readers |-> readers],
                                 name), budget)
    /\ UNCHANGED server_vars

\* Escape or R pressed outside the input
press_escape ==
    /\ UserReset
    /\ UNCHANGED server_vars

\* ------------------------------------------------------------ the read loop
\* one reader.read() that delivers a chunk, and the processing of its lines
reader_read(i) ==
    /\ readers[i].state = "reading"
    /\ LET r == readers[i]
           text == Stream(r.stream)
       IN  \E n \in 1..MaxChunk :
            /\ r.pos + n <= Len(text)
            /\ LET split == SplitLines(r.buffer
                                       \o SubSeq(text, r.pos + 1, r.pos + n))
                   names == ParsedEvents(split.lines)
               IN  /\ app' = ProcessAll(app, names, r.closure)
                   /\ readers' = [readers EXCEPT ![i] =
                          [r EXCEPT !.pos = r.pos + n, !.buffer = split.rest,
                                    !.seen = r.seen \o names]]
    /\ KeyboardEffect
    /\ UNCHANGED server_vars

\* a call that has returned: its locals are gone
Returned(r) ==
    [stream |-> r.stream, pos |-> 0, buffer |-> <<>>, seen |-> <<>>,
     state |-> "returned", aborted |-> FALSE, closure |-> Closure(InitialApp)]

\* reader.read() reports done: break, and runSimulation returns
reader_done(i) ==
    /\ readers[i].state = "reading"
    /\ readers[i].pos = Len(Stream(readers[i].stream))
    /\ readers' = [readers EXCEPT ![i] = Returned(readers[i])]
    /\ UNCHANGED <<app, listeners, server_vars>>

\* fetch or reader.read() throws: the catch block
reader_error(i) ==
    /\ readers[i].state = "reading"
    /\ app' = [app EXCEPT !.isRunning = FALSE]
    /\ readers' = [readers EXCEPT ![i] = Returned(readers[i])]
    /\ KeyboardEffect
    /\ UNCHANGED server_vars

InitClient ==
    /\ max_iterations = 1
    /\ frontier = {}
    /\ current_iteration = 0
    /\ search_queries_used = <<>>
    /\ all_search_results = <<>>
    /\ current_search_results = <<>>
    /\ confidence_history = <<>>
    /\ cumulative_gaps = {}
    /\ thinking_log = <<>>
    /\ reformulation_hint = ""
    /\ threshold_met = FALSE
    /\ rubric_scores = <<>>
    /\ final_answer = NoAnswer
    /\ events = <<>>
    /\ rounds = 0
    /\ trace = <<>>
    /\ decisions = <<>>
    /\ delivered = 0
    /\ cancelled = FALSE
    /\ active_model = "groq"
    /\ models_used = <<>>
    /\ gaps_identified = <<>>
    /\ synthesis_read = <<>>
    /\ app = InitialApp
    /\ readers = <<>>
    /\ listeners = <<Closure(InitialApp)>>
    /\ probe = NoProbe

NextClient ==
    \/ type_query
    \/ press_enter(MaxRuns)
    \/ click_deploy(MaxRuns)
    \/ click_reset
    \/ press_space(MaxRuns)
    \/ press_escape
    \/ \E i \in 1..Len(readers) : reader_read(i)
    \/ \E i \in 1..Len(readers) : reader_done(i)
    \/ \E i \in 1..Len(readers) : reader_error(i)

SpecClient == InitClient /\ [][NextClient]_vars

\* the same client, started at most MaxStreamRuns times
NextStream ==
    \/ type_query
    \/ press_enter(MaxStreamRuns)
    \/ click_deploy(MaxStreamRuns)
    \/ click_reset
    \/ press_space(MaxStreamRuns)
    \/ press_escape
    \/ \E i \in 1..Len(readers) : reader_read(i)
    \/ \E i \in 1..Len(readers) : reader_done(i)
    \/ \E i \in 1..Len(readers) : reader_error(i)

SpecStream == InitClient /\ [][NextStream]_vars

\* ================================================================ claims
SynthesisNodes == {"synthesize_results", "force_synthesize"}

SynthesizerScheduled == frontier \cap SynthesisNodes # {}

PlanningSucceeded == thinking_log # <<>> /\ thinking_log[1].status = "ok"

PlannerFailed == thinking_log # <<>> /\ thinking_log[1].status = "error"

RunEnded == trace # <<>> /\ frontier = {}

CountIn(seq, S) == Cardinality({i \in 1..Len(seq) : seq[i] \in S})

CompleteCount ==
    Cardinality({i \in 1..Len(events) : events[i].event_type = "complete"})

\* C1. Termination: a run whose planning succeeded cannot stop before the
\* Synthesizer, makes at most max_iterations retrieval rounds, and has
\* current_iteration <= max_iterations when the Synthesizer is reached.
C1_Termination ==
    /\ (PlanningSucceeded /\ ~final_answer.produced) => ENABLED Next
    /\ rounds <= max_iterations
    /\ SynthesizerScheduled => current_iteration <= max_iterations

\* The part of C1 that the code keeps: progress and at most max_iterations
\* rounds before the Synthesizer.
C1_RoundsBounded ==
    /\ (PlanningSucceeded /\ ~final_answer.produced) => ENABLED Next
    /\ rounds <= max_iterations

\* C2. should_continue returns one of synthesize, force_synthesize, search
\* (SYNTHESIZE, FORCE_SYNTHESIZE, RETRY) for every input, and never search
\* when iteration >= max_iterations.
C2_ThreeWayExhaustive ==
    probe.result # "none" =>
        /\ probe.result \in {"synthesize", "force_synthesize", "search"}
        /\ probe.iteration >= probe.max_iterations => probe.result # "search"

C2_Witness ==
    /\ probe.result = "force_synthesize"
    /\ probe.iteration = probe.max_iterations

\* C3. should_continue tests threshold_met first: synthesize whenever it is
\* true (also at the cap), force_synthesize exactly when it is false and
\* iteration >= max_iterations, search exactly when it is false and
\* iteration < max_iterations.
C3_ThresholdFirst ==
    probe.result # "none" =>
        /\ probe.threshold_met => probe.result = "synthesize"
        /\ probe.result = "force_synthesize" <=>
               (~probe.threshold_met /\ probe.iteration >= probe.max_iterations)
        /\ probe.result = "search" <=>
               (~probe.threshold_met /\ probe.iteration < probe.max_iterations)

C3_Witness ==
    /\ probe.threshold_met
    /\ probe.iteration >= probe.max_iterations
    /\ probe.result = "synthesize"

\* C4. current_iteration grows by exactly 1 per retrieval round: when a round
\* reaches the decision gate, the counter equals the number of rounds run,
\* also when the search or the evaluation of the round failed.
C4_OnePerRound ==
    "should_continue" \in frontier => current_iteration = rounds

\* The part of C4 that the code keeps: the counter never decreases.
C4_NeverDecreases == [][current_iteration' >= current_iteration]_vars

\* C5. In every reachable state of a run 0 <= iteration <= maxIterations.
C5_IterationInRange ==
    0 <= current_iteration /\ current_iteration <= max_iterations

\* C6. all_search_results, search_queries_used, confidence_history and
\* thinking_log are append-only: every step leaves the old value of each as
\* a prefix of the new one.
C6_AppendOnly ==
    [][/\ IsPrefix(all_search_results, all_search_results')
       /\ IsPrefix(search_queries_used, search_queries_used')
       /\ IsPrefix(confidence_history, confidence_history')
       /\ IsPrefix(thinking_log, thinking_log')]_vars

C6_Witness ==
    /\ Len(all_search_results) >= 3
    /\ Len(search_queries_used) >= 2
    /\ Len(confidence_history) >= 2
    /\ Len(thinking_log) >= 5

\* C7. The steps of a run happen in the order plan_research, then 1 to
\* max_iterations rounds of execute_search, evaluate_results,
\* should_continue, then one synthesis node (the one the last decision
\* names), which runs once and last; at most one step is scheduled at a time.
C7_StrictSequence ==
    /\ Cardinality(frontier) <= 1
    /\ \A i \in 1..Len(trace) :
        /\ (trace[i] = "plan_research") <=> (i = 1)
        /\ trace[i] = "execute_search" =>
               i > 1 /\ trace[i - 1] \in {"plan_research", "should_continue"}
        /\ trace[i] = "evaluate_results" =>
               i > 1 /\ trace[i - 1] = "execute_search"
        /\ trace[i] = "should_continue" =>
               i > 1 /\ trace[i - 1] = "evaluate_results"
        /\ trace[i] \in SynthesisNodes =>
               /\ i = Len(trace)
               /\ trace[i - 1] = "should_continue"
               /\ trace[i] = EdgeTarget(Last(decisions))
    /\ CountIn(trace, {"execute_search"}) <= max_iterations
    /\ (RunEnded /\ PlanningSucceeded) =>
           /\ Last(trace) \in SynthesisNodes
           /\ CountIn(trace, SynthesisNodes) = 1
           /\ CountIn(trace, {"execute_search"}) >= 1

C7_Witness ==
    /\ RunEnded
    /\ Last(trace) = "force_synthesize"
    /\ CountIn(trace, {"execute_search"}) = max_iterations
    /\ max_iterations >= 2

\* C8. Every run that passes planning emits the complete event exactly once
\* and as the last event of its stream: nothing follows it, and a run that
\* passed planning eventually has it.
C8_CompleteOnceAndLast ==
    /\ [](/\ CompleteCount <= 1
          /\ CompleteCount = 1 => Last(events).event_type = "complete"
          /\ (RunEnded /\ PlanningSucceeded) => CompleteCount = 1)
    /\ (PlanningSucceeded ~> CompleteCount = 1)

C8_Witness ==
    /\ PlanningSucceeded
    /\ CompleteCount = 1
    /\ Len(events) >= 6
    /\ \E i \in 1..Len(events) : events[i].event_type = "retry_triggered"

\* C9. An error inside execute_search (an exception, or a search without a
\* usable source) does not end the run: the round has no sources,
\* current_iteration advances by 1, one step record for the search is logged
\* and emitted, and evaluate_results is scheduled next.
C9_SearchErrorAbsorbed ==
    [][("execute_search" \in frontier /\ rounds' = rounds + 1
            /\ Sources(current_search_results') = <<>>)
       => /\ current_iteration' = current_iteration + 1
          /\ frontier' = {"evaluate_results"}
          /\ final_answer' = final_answer
          /\ Len(thinking_log') = Len(thinking_log) + 1
          /\ Last(thinking_log').type \in {"search_initial", "search_retry"}
          /\ events' = Append(events, StepEvent(Last(thinking_log')))]_vars

C9_Witness ==
    /\ rounds = 1
    /\ current_search_results = <<>>
    /\ Last(thinking_log).status = "error"
    /\ Last(thinking_log).type = "search_initial"
    /\ current_iteration = 1
    /\ frontier = {"evaluate_results"}

EventsOfType(t) == SelectSeq(events, LAMBDA e : e.event_type = t)

NodeExecutions == SelectSeq(trace, LAMBDA n : n # "should_continue")

StepTypesOf(node) ==
    CASE node = "plan_research" -> {"plan"}
      [] node = "execute_search" -> {"search_initial", "search_retry"}
      [] node = "evaluate_results" -> {"evaluate_pass", "evaluate_retry"}
      [] OTHER -> {"synthesize"}

NeverMet == \A i \in 1..Len(confidence_history) :
                confidence_history[i] < confidence_threshold

\* C11. If the threshold is met in no round, the run makes exactly
\* max_iterations rounds: the gate returns search after each of the rounds
\* 1..K-1 and force_synthesize after round K, and the run then synthesizes.
C11_ExactlyKRounds ==
    (final_answer.produced /\ NeverMet) =>
        /\ rounds = max_iterations
        /\ decisions = [i \in 1..max_iterations |->
                           IF i < max_iterations THEN "search"
                           ELSE "force_synthesize"]
        /\ Last(trace) = "force_synthesize"

\* C12. A retry_triggered event is emitted exactly when should_continue
\* returns search: at every moment the stream holds as many retry_triggered
\* events as search decisions were taken, so none for synthesize or
\* force_synthesize, and none in a run whose first round met the threshold.
C12_RetryEventPerRetry ==
    /\ Len(EventsOfType("retry_triggered")) = CountIn(decisions, {"search"})
    /\ (decisions # <<>> /\ Last(trace) = "should_continue") =>
           ((Last(events).event_type = "retry_triggered")
                <=> (Last(decisions) = "search"))

C12_Witness ==
    /\ decisions = <<"search", "synthesize">>
    /\ Len(EventsOfType("retry_triggered")) = 1

\* C13. For every evaluation threshold_met is true exactly when
\* confidence >= confidence_threshold; a score equal to the threshold counts
\* as met, and the client's below-threshold banner shows exactly otherwise.
C13_ThresholdInclusive ==
    "should_continue" \in frontier =>
        /\ threshold_met <=> (Last(confidence_history) >= confidence_threshold)
        /\ threshold_met <=> ~BelowThresholdBanner(Last(confidence_history))

C13_Witness ==
    /\ "should_continue" \in frontier
    /\ Last(confidence_history) = confidence_threshold
    /\ threshold_met

\* C14. The Synthesizer is total on empty input: with no source accumulated
\* it still produces a well-formed final answer with final_confidence 0 and
\* no citations, and the run completes.
C14_SynthesisTotal ==
    /\ (SynthesizerScheduled /\ Sources(all_search_results) = <<>>) =>
           ENABLED Next
    /\ (final_answer.produced /\ Sources(all_search_results) = <<>>) =>
           /\ final_answer.answer # ""
           /\ final_answer.final_confidence = 0
           /\ final_answer.citations = <<>>
           /\ Last(events).event_type = "complete"

C14_Witness ==
    /\ final_answer.produced
    /\ all_search_results = <<>>
    /\ rounds = max_iterations
    /\ max_iterations >= 2

\* C15. Cancelling leaves no partially applied round: after a cancellation
\* current_iteration counts exactly the rounds whose query and results were
\* accumulated.
C15_CancelAtomic ==
    cancelled => current_iteration = rounds

\* C16. search_queries_used never holds two equal queries.
C16_NoRepeatedQuery ==
    \A i, j \in 1..Len(search_queries_used) :
        i # j => search_queries_used[i] # search_queries_used[j]

\* C17. Every execution of the planner, the search, the evaluator or the
\* synthesizer, failed or not, adds one entry to thinking_log and one step
\* event, and the step events carry the entries in execution order.
C17_OneStepPerExecution ==
    /\ Len(thinking_log) = Len(NodeExecutions)
    /\ \A i \in 1..Len(thinking_log) :
           thinking_log[i].type \in StepTypesOf(NodeExecutions[i])
    /\ Len(EventsOfType("step")) = Len(thinking_log)
    /\ \A i \in 1..Len(thinking_log) :
           EventsOfType("step")[i].data = thinking_log[i]

C17_Witness ==
    /\ RunEnded
    /\ Len(thinking_log) >= 6
    /\ \E i, j \in 1..Len(thinking_log) :
        /\ thinking_log[i].status = "error"
        /\ thinking_log[i].type = "search_retry"
        /\ thinking_log[j].status = "error"
        /\ thinking_log[j].type = "evaluate_retry"

\* C18. Each evaluation adds one entry to confidence_history and is followed
\* by one confidence_update event carrying the history as it then was; when
\* r rounds are complete the history has r entries.
C18_OneConfidencePerEvaluation ==
    /\ Len(confidence_history) = CountIn(trace, {"evaluate_results"})
    /\ Len(EventsOfType("confidence_update")) = Len(confidence_history)
    /\ \A i \in 1..Len(confidence_history) :
           EventsOfType("confidence_update")[i].data.history
               = SubSeq(confidence_history, 1, i)
    /\ "should_continue" \in frontier => Len(confidence_history) = rounds

C18_Witness ==
    /\ "should_continue" \in frontier
    /\ rounds = 2
    /\ Len(confidence_history) = 2
    /\ confidence_history[2] = 0

C20_ObserverNeverBlocks ==
    /\ PlanningSucceeded ~> (final_answer.produced /\ frontier = {})
    /\ [](delivered <= Len(events))
    /\ [][/\ delivered' \in {delivered, delivered + 1}
          /\ IsPrefix(events, events')]_vars

C20_Witness ==
    /\ final_answer.produced
    /\ delivered = 0
    /\ Len(events) >= 8

\* ---------------------------------------------------- claims C21 to C25
\* C21. A switch of the active provider while a run is in flight does not
\* change the configuration the run uses: every node of the run calls the
\* provider that was active when the run started, with the cap it started with.
C21_ConfigSnapshot ==
    \A i \in 1..Len(models_used) : models_used[i] = models_used[1]

\* C22. Only an execute_search execution changes current_iteration: the
\* evaluator, the gate and the synthesizer leave it unchanged, also when they
\* fail, and the gate changes no field of the state.
C22_OnlySearchMovesIteration ==
    [][/\ rounds' = rounds => current_iteration' = current_iteration
       /\ Len(decisions') > Len(decisions) => UNCHANGED state_vars]_vars

C24_GapsOnlyGrow ==
    [][/\ cumulative_gaps \subseteq cumulative_gaps'
       /\ Len(gaps_identified') > Len(gaps_identified) =>
              cumulative_gaps' = cumulative_gaps \cup Last(gaps_identified')
       /\ IF cumulative_gaps' # cumulative_gaps
          THEN /\ Len(EventsOfType("gaps_updated")')
                      = Len(EventsOfType("gaps_updated")) + 1
               /\ Last(EventsOfType("gaps_updated")').data.gaps
                      = cumulative_gaps'
          ELSE EventsOfType("gaps_updated")' = EventsOfType("gaps_updated")
      ]_vars

C24_Witness ==
    /\ Len(gaps_identified) = 3
    /\ gaps_identified[1] = gaps_identified[2]
    /\ cumulative_gaps = {"g1", "g2"}
    /\ Len(EventsOfType("gaps_updated")) = 2

ScoredAbove(results, m) == SelectSeq(results, LAMBDA r : r.score > m)

MinScore(results) ==
    CHOOSE m \in {results[i].score : i \in 1..Len(results)} :
        \A i \in 1..Len(results) : m <= results[i].score

\* C25. The synthesizer reads at most 15 results, the 15 highest-scoring of
\* all_search_results (every result scoring above the lowest one read was
\* read too), and all_search_results keeps the entries outside the window.
C25_WindowTopScored ==
    final_answer.produced =>
        /\ Len(synthesis_read) <= SynthesisWindow
        /\ Len(synthesis_read) <= Len(all_search_results)
        /\ Len(all_search_results) > SynthesisWindow =>
               /\ Len(synthesis_read) = SynthesisWindow
               /\ Len(ScoredAbove(all_search_results, MinScore(synthesis_read)))
                      = Len(ScoredAbove(synthesis_read,
                                        MinScore(synthesis_read)))

\* --------------------------------------------------- claims C26 to C30
\* C26. After resetState was invoked while a response stream is being read
\* (ABORT, Escape, R, Reset), no later step of that stream's read loop
\* changes the client state.
C26_ResetStopsStream ==
    [][\A i \in 1..Len(readers) :
          (readers[i].aborted /\ readers'[i] # readers[i]) => app' = app
      ]_vars

\* the calls of runSimulation whose read loop has not returned
Reading(rs) == {i \in 1..Len(rs) : rs[i].state = "reading"}

\* C27. At most one response stream is read at any time: no user action
\* starts a run while an earlier stream is still consumed, and one action
\* starts at most one run.
C27_OneStreamAtATime ==
    [][/\ Cardinality(Reading(readers')) <= 1
       /\ Len(readers') <= Len(readers) + 1
      ]_vars

\* C28. Once every stream has ended (complete event, fetch or read error, or
\* done without a complete event) and its read loop has returned, the client
\* is not in the running state.
C28_RunningCleared ==
    (/\ Len(readers) > 0
     /\ \A i \in 1..Len(readers) : readers[i].state = "returned")
        => ~app.isRunning

\* the events of the newline-terminated 'data: ' lines with parseable JSON
\* among the first pos symbols of text, in order, whatever the chunks were
RECURSIVE EventsUpTo(_, _)
EventsUpTo(text, pos) ==
    IF pos = 0 THEN <<>>
    ELSE IF /\ pos >= 3
            /\ text[pos] = "LF"
            /\ text[pos - 1] \in EventNames
            /\ text[pos - 2] = "DATA:"
            /\ (pos = 3 \/ text[pos - 3] = "LF")
         THEN Append(EventsUpTo(text, pos - 1), text[pos - 1])
         ELSE EventsUpTo(text, pos - 1)

\* C29. The events a read loop has processed are those of the complete
\* 'data: ' lines received so far, once each and in order, however the
\* response was cut into chunks; a chunk that completes no such line
\* changes no state and leaves the loop reading.
C29_ChunkingIndependent ==
    [][\A i \in 1..Len(readers') :
          readers'[i].state = "reading" =>
              /\ readers'[i].seen
                     = EventsUpTo(Stream(readers'[i].stream), readers'[i].pos)
              /\ (/\ i <= Len(readers)
                  /\ readers'[i].pos > readers[i].pos
                  /\ readers'[i].seen = readers[i].seen) => app' = app
      ]_vars

C29_Witness ==
    \E i \in 1..Len(readers) :
        /\ readers[i].state = "reading"
        /\ readers[i].stream = "cut"
        /\ readers[i].pos = Len(StreamCut)
        /\ readers[i].buffer = <<"DATA:", "plan">>
        /\ readers[i].seen = <<"search", "search_retry", "gaps_updated",
                               "retry_triggered">>
        /\ app.logs = <<"search_initial", "search_retry">>
        /\ Len(app.retryEvents) = 1

\* C30. The sources list never holds two entries with the same URL.
C30_UniqueSourceUrls ==
    \A i, j \in 1..Len(app.sources) :
        i # j => app.sources[i].url # app.sources[j].url

====
